---------------------------- MODULE Spec2Model ----------------------------
(***************************************************************************)
(* ByteBuilder: the build state and its aggregates.                        *)
(*                                                                         *)
(* The repository holds four page scripts, each with a module-level build  *)
(* state `state` (category -> selected component):                         *)
(*   app.js               catalog builder, one <select> per category       *)
(*   builder.js           catalog builder, one card per category           *)
(*   Frontend/main.js     web-search builder with remove and compatibility *)
(*   Frontend/builder.js  web-search builder                               *)
(* The variable `page` says which script is loaded; a behaviour stays on   *)
(* one page.  Catalog prices are whole dollars, as in the source.  Prices  *)
(* of web components are carried in hundredths (parseFloat of a price with *)
(* at most two decimals), NaN being the value parseFloat gives for text    *)
(* that holds no number.                                                   *)
(***************************************************************************)
EXTENDS Integers, Sequences, FiniteSets, TLC

(***************************************************************************)
(* Bounds.                                                                 *)
(***************************************************************************)
\* At most this many categories hold a selection at the same time.
MaxSelected == 2

\* At most this many compatibility checks are started in a run.
MaxChecks == 2

\* Searches started in a run.
MaxSearches == 2

\* Price texts of up to this many characters are normalised.
MaxPriceLen == 3

\* Date.now() advances at most this far in a run.
MaxClock == 1

(***************************************************************************)
(* Pages.                                                                  *)
(***************************************************************************)
APP == "app.js"
BUILDER == "builder.js"
MAIN == "Frontend/main.js"
FBUILDER == "Frontend/builder.js"

CatalogPages == {APP, BUILDER}
WebPages == {MAIN, FBUILDER}
Pages == CatalogPages \cup WebPages

(***************************************************************************)
(* Static data.                                                            *)
(***************************************************************************)
\* const ORDER of each script; the web builders add "Accessories".
ORDER(p) ==
    IF p \in WebPages
    THEN <<"CPU", "GPU", "RAM", "Storage", "Motherboard", "Case",
           "Power Supply", "Cooling System", "Accessories">>
    ELSE <<"CPU", "GPU", "RAM", "Storage", "Motherboard", "Case",
           "Power Supply", "Cooling System">>

Categories(p) == {ORDER(p)[i] : i \in 1..Len(ORDER(p))}

\* const CATALOG of app.js: only CPU and GPU items carry a score.
CATALOG_app ==
    [c \in Categories(APP) |->
       CASE c = "CPU" ->
              << [id |-> "r5-5600", name |-> "AMD Ryzen 5 5600", price |-> 129, watts |-> 65, score |-> 70],
                 [id |-> "r7-7800x3d", name |-> "AMD Ryzen 7 7800X3D", price |-> 369, watts |-> 120, score |-> 95],
                 [id |-> "i5-12400F", name |-> "Intel Core i5-12400F", price |-> 149, watts |-> 65, score |-> 72],
                 [id |-> "i7-13700K", name |-> "Intel Core i7-13700K", price |-> 389, watts |-> 125, score |-> 92] >>
         [] c = "GPU" ->
              << [id |-> "rtx-4060", name |-> "NVIDIA RTX 4060 8GB", price |-> 299, watts |-> 115, score |-> 70],
                 [id |-> "rtx-4070", name |-> "NVIDIA RTX 4070 12GB", price |-> 549, watts |-> 200, score |-> 86],
                 [id |-> "rx-7700xt", name |-> "AMD RX 7700 XT 12GB", price |-> 399, watts |-> 245, score |-> 82],
                 [id |-> "rx-7800xt", name |-> "AMD RX 7800 XT 16GB", price |-> 479, watts |-> 263, score |-> 88] >>
         [] c = "RAM" ->
              << [id |-> "16gb-3200", name |-> "16GB (2x8) DDR4-3200", price |-> 44, watts |-> 8],
                 [id |-> "32gb-3600", name |-> "32GB (2x16) DDR4-3600", price |-> 89, watts |-> 10],
                 [id |-> "32gb-ddr5", name |-> "32GB (2x16) DDR5-6000", price |-> 119, watts |-> 12] >>
         [] c = "Storage" ->
              << [id |-> "ssd-1tb", name |-> "1TB NVMe SSD (Gen3)", price |-> 59, watts |-> 5],
                 [id |-> "ssd-2tb", name |-> "2TB NVMe SSD (Gen4)", price |-> 129, watts |-> 6],
                 [id |-> "ssd-4tb", name |-> "4TB SATA SSD", price |-> 199, watts |-> 6] >>
         [] c = "Motherboard" ->
              << [id |-> "b550", name |-> "B550 ATX", price |-> 119, watts |-> 40],
                 [id |-> "b650", name |-> "B650 ATX", price |-> 169, watts |-> 45],
                 [id |-> "z690", name |-> "Z690 ATX", price |-> 219, watts |-> 50] >>
         [] c = "Case" ->
              << [id |-> "mesh-mid", name |-> "Mesh Mid-Tower", price |-> 79, watts |-> 0],
                 [id |-> "quiet-mid", name |-> "Quiet Mid-Tower", price |-> 129, watts |-> 0],
                 [id |-> "mini-itx", name |-> "Mini-ITX Small Form", price |-> 139, watts |-> 0] >>
         [] c = "Power Supply" ->
              << [id |-> "psu-550", name |-> "550W 80+ Bronze", price |-> 59, watts |-> 550],
                 [id |-> "psu-650", name |-> "650W 80+ Gold", price |-> 89, watts |-> 650],
                 [id |-> "psu-750", name |-> "750W 80+ Gold", price |-> 109, watts |-> 750],
                 [id |-> "psu-850", name |-> "850W 80+ Gold", price |-> 129, watts |-> 850] >>
         [] c = "Cooling System" ->
              << [id |-> "air-1", name |-> "120mm Air Cooler", price |-> 29, watts |-> 5],
                 [id |-> "air-2", name |-> "Dual-Tower Air Cooler", price |-> 69, watts |-> 7],
                 [id |-> "aio-240", name |-> "240mm AIO Liquid", price |-> 99, watts |-> 9] >> ]

\* const CATALOG of builder.js: every item carries a score (0 outside CPU and
\* GPU); image and specs are display data and are left out.
CATALOG_builder ==
    [c \in Categories(BUILDER) |->
       CASE c = "CPU" ->
              << [id |-> "r5-5600", name |-> "AMD Ryzen 5 5600", price |-> 129, watts |-> 65, score |-> 70],
                 [id |-> "r7-7800x3d", name |-> "AMD Ryzen 7 7800X3D", price |-> 369, watts |-> 120, score |-> 95],
                 [id |-> "i5-12400F", name |-> "Intel Core i5-12400F", price |-> 149, watts |-> 65, score |-> 72],
                 [id |-> "i7-13700K", name |-> "Intel Core i7-13700K", price |-> 389, watts |-> 125, score |-> 92] >>
         [] c = "GPU" ->
              << [id |-> "rtx-4060", name |-> "NVIDIA RTX 4060 8GB", price |-> 299, watts |-> 115, score |-> 70],
                 [id |-> "rtx-4070", name |-> "NVIDIA RTX 4070 12GB", price |-> 549, watts |-> 200, score |-> 86],
                 [id |-> "rx-7700xt", name |-> "AMD RX 7700 XT 12GB", price |-> 399, watts |-> 245, score |-> 82] >>
         [] c = "RAM" ->
              << [id |-> "ddr4-16gb", name |-> "16GB DDR4-3200", price |-> 45, watts |-> 10, score |-> 0],
                 [id |-> "ddr4-32gb", name |-> "32GB DDR4-3600", price |-> 89, watts |-> 15, score |-> 0],
                 [id |-> "ddr5-32gb", name |-> "32GB DDR5-5600", price |-> 149, watts |-> 12, score |-> 0] >>
         [] c = "Storage" ->
              << [id |-> "ssd-500gb", name |-> "500GB NVMe SSD", price |-> 39, watts |-> 5, score |-> 0],
                 [id |-> "ssd-1tb", name |-> "1TB NVMe SSD (Gen4)", price |-> 69, watts |-> 6, score |-> 0],
                 [id |-> "ssd-2tb", name |-> "2TB NVMe SSD (Gen4)", price |-> 129, watts |-> 6, score |-> 0] >>
         [] c = "Motherboard" ->
              << [id |-> "b550", name |-> "B550 ATX", price |-> 119, watts |-> 40, score |-> 0],
                 [id |-> "b650", name |-> "B650 ATX", price |-> 169, watts |-> 45, score |-> 0],
                 [id |-> "z690", name |-> "Z690 ATX", price |-> 219, watts |-> 50, score |-> 0] >>
         [] c = "Case" ->
              << [id |-> "mesh-mid", name |-> "Mesh Mid-Tower", price |-> 79, watts |-> 0, score |-> 0],
                 [id |-> "quiet-mid", name |-> "Quiet Mid-Tower", price |-> 129, watts |-> 0, score |-> 0] >>
         [] c = "Power Supply" ->
              << [id |-> "psu-650", name |-> "650W 80+ Gold", price |-> 89, watts |-> 650, score |-> 0],
                 [id |-> "psu-750", name |-> "750W 80+ Gold", price |-> 109, watts |-> 750, score |-> 0] >>
         [] c = "Cooling System" ->
              << [id |-> "air-1", name |-> "120mm Air Cooler", price |-> 29, watts |-> 5, score |-> 0],
                 [id |-> "aio-240", name |-> "240mm AIO Liquid", price |-> 99, watts |-> 9, score |-> 0] >> ]

CATALOG(p) == IF p = APP THEN CATALOG_app ELSE CATALOG_builder


(***************************************************************************)
(* JavaScript values.                                                      *)
(***************************************************************************)
\* The number NaN (parseFloat of text without a number; anything + NaN).
NaN == -1

IsNaN(v) == v = NaN

\* a + b on numbers.
Add(a, b) == IF IsNaN(a) \/ IsNaN(b) THEN NaN ELSE a + b

\* Variant of Or0: item.f without the "|| 0".
Or0_NoDefault(item, f) == IF f \in DOMAIN item THEN item[f] ELSE NaN

\* item.f || 0: a missing field, 0 and NaN are falsy.
Or0(item, f) ==
    IF f \in DOMAIN item /\ item[f] # 0 /\ ~IsNaN(item[f]) THEN item[f] ELSE 0

\* Variant of Delete: the key stays.
Delete_Keep(st, c) == st

\* Variant of Assign: an occupied key keeps its component.
Assign_IfAbsent(st, c, v) == [k \in (DOMAIN st) \cup {c} |-> IF k \in DOMAIN st THEN st[k] ELSE v]

\* The state object with key c deleted / set.
Delete(st, c) == [k \in (DOMAIN st) \ {c} |-> st[k]]

Assign(st, c, v) == [k \in (DOMAIN st) \cup {c} |-> IF k = c THEN v ELSE st[k]]

\* Object.keys(state).length
KeyCount(st) == Cardinality(DOMAIN st)

\* list.find((i) => i.id === itemId): the index of the first match, 0 for
\* undefined.
RECURSIVE FindFrom(_, _, _)
FindFrom(list, itemId, i) ==
    IF i > Len(list) THEN 0
    ELSE IF list[i].id = itemId THEN i
    ELSE FindFrom(list, itemId, i + 1)

Find(list, itemId) == FindFrom(list, itemId, 1)

Abs(n) == IF n < 0 THEN 0 - n ELSE n

\* Variant of toFixed0: Math.trunc in place of toFixed(0).
toFixed0_Trunc(num, den) ==
    IF den = 0
    THEN (IF num = 0 THEN "NaN" ELSE IF num < 0 THEN "-Infinity" ELSE "Infinity")
    ELSE LET neg == (num < 0) # (den < 0)
             mag == (100 * Abs(num)) \div Abs(den)
         IN  IF neg /\ mag # 0 THEN "-" \o ToString(mag) ELSE ToString(mag)

\* ((num / den) * 100).toFixed(0): the magnitude rounded to the nearest
\* integer, halves away from zero, behind the sign of the value ("-0" for a
\* negative value that rounds to zero).
toFixed0(num, den) ==
    IF den = 0
    THEN (IF num = 0 THEN "NaN" ELSE IF num < 0 THEN "-Infinity" ELSE "Infinity")
    ELSE LET neg == (num < 0) # (den < 0)
             mag == (2 * 100 * Abs(num) + Abs(den)) \div (2 * Abs(den))
         IN  IF neg /\ num # 0 THEN "-" \o ToString(mag) ELSE ToString(mag)

(***************************************************************************)
(* Aggregates.                                                             *)
(***************************************************************************)

\* Variant of IsCpuOrGpu: category === "CPU" only.
IsCpuOrGpu_CpuOnly(category) == category = "CPU"

\* category === "CPU" || category === "GPU"
IsCpuOrGpu(category) == category = "CPU" \/ category = "GPU"

\* The ORDER.forEach loop of updateSummary, from position i on.
RECURSIVE SummaryLoop(_, _, _, _)
SummaryLoop(p, st, i, acc) ==
    IF i > Len(ORDER(p)) THEN acc
    ELSE LET category == ORDER(p)[i]
         IN  IF category \in DOMAIN st
             THEN LET item == st[category]
                  IN  SummaryLoop(p, st, i + 1,
                        [total |-> Add(acc.total, item.price),
                         totalWatts |-> Add(acc.totalWatts, Or0(item, "watts")),
                         cpuGpuScore |->
                            IF IsCpuOrGpu(category)
                            THEN Add(acc.cpuGpuScore, Or0(item, "score"))
                            ELSE acc.cpuGpuScore])
             ELSE SummaryLoop(p, st, i + 1, acc)

SummaryTotals(p, st) ==
    SummaryLoop(p, st, 1, [total |-> 0, totalWatts |-> 0, cpuGpuScore |-> 0])

\* Variant of PerfScoreText: the score is always printed.
PerfScoreText_Always(cpuGpuScore) == ToString(cpuGpuScore) \o "/200"

\* The text updateSummary writes to #perfScore.
PerfScoreText(cpuGpuScore) ==
    IF cpuGpuScore > 0 THEN ToString(cpuGpuScore) \o "/200" ELSE "-"

\* The text updateSummary writes to #psuHeadroom.
PsuHeadroomText(st, totalWatts) ==
    IF "Power Supply" \in DOMAIN st /\ totalWatts > 0
    THEN toFixed0(st["Power Supply"].watts - totalWatts, st["Power Supply"].watts) \o "%"
    ELSE "-"

\* The text updateSummary writes to each category's price cell.
PriceCells(p, st) ==
    [c \in Categories(p) |->
        IF c \in DOMAIN st THEN "$" \o ToString(st[c].price) ELSE "$0"]

\* What updateSummary leaves in the document.
updateSummary(p, st) ==
    LET t == SummaryTotals(p, st)
    IN  [totalPrice |-> "$" \o ToString(t.total),
         wattBadge |-> "~ Wattage: " \o ToString(t.totalWatts) \o "W",
         perfScore |-> PerfScoreText(t.cpuGpuScore),
         psuHeadroom |-> PsuHeadroomText(st, t.totalWatts),
         priceCell |-> PriceCells(p, st)]

(***************************************************************************)
(* Price text (Frontend/main.js, Frontend/builder.js).                     *)
(***************************************************************************)
Digits == {"0", "1", "2", "3", "4", "5", "6", "7", "8", "9"}

DigitValue(ch) ==
    CASE ch = "0" -> 0 [] ch = "1" -> 1 [] ch = "2" -> 2 [] ch = "3" -> 3
      [] ch = "4" -> 4 [] ch = "5" -> 5 [] ch = "6" -> 6 [] ch = "7" -> 7
      [] ch = "8" -> 8 [] ch = "9" -> 9

\* The first position from i on whose character is in set, 0 when there is none.
RECURSIVE FirstIn(_, _, _)
FirstIn(s, i, set) ==
    IF i > Len(s) THEN 0
    ELSE IF s[i] \in set THEN i
    ELSE FirstIn(s, i + 1, set)

\* The last position of the longest run of characters of set that starts at i
\* (i - 1 when s[i] is not in set).
RECURSIVE RunEnd(_, _, _)
RunEnd(s, i, set) ==
    IF i <= Len(s) /\ s[i] \in set THEN RunEnd(s, i + 1, set) ELSE i - 1

\* priceString.match(/[\d,]+\.?\d*/g)[0], as <<first, last>> positions;
\* <<0, 0>> when match returns null.
FirstMatch(s) ==
    LET a == FirstIn(s, 1, Digits \cup {","})
        b == RunEnd(s, a, Digits \cup {","})
        c == IF b < Len(s) /\ s[b + 1] = "." THEN b + 1 ELSE b
        d == RunEnd(s, c + 1, Digits)
    IN  IF a = 0 THEN <<0, 0>> ELSE <<a, d>>

\* Variant of StripCommas: the commas are kept.
StripCommas_Keep(s) == s

\* text.replace(/,/g, "")
RECURSIVE StripCommas(_)
StripCommas(s) ==
    IF s = <<>> THEN <<>>
    ELSE IF Head(s) = "," THEN StripCommas(Tail(s))
    ELSE <<Head(s)>> \o StripCommas(Tail(s))

\* The number a run of digits denotes (0 for the empty run).
RECURSIVE DigitsValue(_)
DigitsValue(s) ==
    IF s = <<>> THEN 0
    ELSE 10 * DigitsValue(SubSeq(s, 1, Len(s) - 1)) + DigitValue(s[Len(s)])

\* parseFloat of text made of digits and at most one ".", in hundredths: the
\* digits before the point and the first two after it; NaN when there is no
\* digit on either side.
parseFloat(s) ==
    LET i == RunEnd(s, 1, Digits)
        j == IF i < Len(s) /\ s[i + 1] = "." THEN RunEnd(s, i + 2, Digits) ELSE i
        frac == IF j > i THEN SubSeq(s, i + 2, j) ELSE <<>>
        frac2 == IF Len(frac) = 0 THEN 0
                 ELSE IF Len(frac) = 1 THEN 10 * DigitValue(frac[1])
                 ELSE 10 * DigitValue(frac[1]) + DigitValue(frac[2])
    IN  IF i = 0 /\ Len(frac) = 0 THEN NaN
        ELSE 100 * DigitsValue(SubSeq(s, 1, i)) + frac2

\* The raw result w has a field f that is not the empty text.
Truthy(w, f) == f \in DOMAIN w /\ Len(w[f]) > 0

\* extractNumericPrice(webComponent.price)
extractNumericPrice(w) ==
    IF ~Truthy(w, "price") THEN 0
    ELSE LET m == FirstMatch(w.price)
         IN  IF m = <<0, 0>> THEN 0
             ELSE parseFloat(StripCommas(SubSeq(w.price, m[1], m[2])))

\* Two decimal digits.
Pad2(n) == IF n < 10 THEN "0" \o ToString(n) ELSE ToString(n)

Pad3(n) == IF n < 10 THEN "00" \o ToString(n) ELSE IF n < 100 THEN "0" \o ToString(n) ELSE ToString(n)

\* The decimals of a number held in hundredths, trailing zeros dropped.
FractionText(v) ==
    IF v % 100 = 0 THEN ""
    ELSE IF v % 10 = 0 THEN "." \o ToString((v % 100) \div 10)
    ELSE "." \o Pad2(v % 100)

\* `${number}` on a web page.
NumberText(v) ==
    IF IsNaN(v) THEN "NaN" ELSE ToString(v \div 100) \o FractionText(v)

\* Digits in groups of three.
RECURSIVE Grouped(_)
Grouped(n) ==
    IF n < 1000 THEN ToString(n)
    ELSE Grouped(n \div 1000) \o "," \o Pad3(n % 1000)

\* number.toLocaleString() in the en-US locale.
toLocaleString(v) ==
    IF IsNaN(v) THEN "NaN" ELSE Grouped(v \div 100) \o FractionText(v)

\* The loop of calculateTotalPrice from position i on.
RECURSIVE TotalPriceLoop(_, _, _, _)
TotalPriceLoop(p, st, i, total) ==
    IF i > Len(ORDER(p)) THEN total
    ELSE IF ORDER(p)[i] \in DOMAIN st
    THEN TotalPriceLoop(p, st, i + 1, Add(total, st[ORDER(p)[i]].price))
    ELSE TotalPriceLoop(p, st, i + 1, total)

\* Variant of calculateTotalPrice: the loop starts at the second category.
calculateTotalPrice_FromSecond(p, st) == TotalPriceLoop(p, st, 2, 0)

calculateTotalPrice(p, st) == TotalPriceLoop(p, st, 1, 0)

\* The loop of calculateTotalWatts from position i on.
RECURSIVE TotalWattsLoop(_, _, _, _)
TotalWattsLoop(p, st, i, totalWatts) ==
    IF i > Len(ORDER(p)) THEN totalWatts
    ELSE IF ORDER(p)[i] \in DOMAIN st
    THEN TotalWattsLoop(p, st, i + 1, Add(totalWatts, Or0(st[ORDER(p)[i]], "watts")))
    ELSE TotalWattsLoop(p, st, i + 1, totalWatts)

calculateTotalWatts(p, st) == TotalWattsLoop(p, st, 1, 0)

\* The class updatePriceTracker gives #totalPrice (prices in hundredths).
PriceClass(totalPrice) ==
    IF IsNaN(totalPrice) THEN "price-amount"
    ELSE IF totalPrice > 300000 THEN "price-amount price-high"
    ELSE IF totalPrice > 150000 THEN "price-amount price-medium"
    ELSE IF totalPrice > 0 THEN "price-amount price-low"
    ELSE "price-amount"

\* The state of #compatibilityCheckBtn updatePriceTracker leaves.
TrackerButton(componentCount) ==
    IF componentCount >= 2
    THEN [disabled |-> FALSE, title |-> "Check PC component compatibility"]
    ELSE [disabled |-> TRUE, title |-> "Select at least 2 components to check compatibility"]

\* What updatePriceTracker leaves in the document.
updatePriceTracker(p, st) ==
    [totalPrice |-> "$" \o toLocaleString(calculateTotalPrice(p, st)),
     class |-> PriceClass(calculateTotalPrice(p, st)),
     componentCount |-> ToString(KeyCount(st)),
     button |-> TrackerButton(KeyCount(st))]

\* Variant of EstimatedWatts: the draw alone.
EstimatedWatts_Draw(rnd) == rnd

\* Math.floor(Math.random() * 200) + 50, with rnd the floored product.
EstimatedWatts(rnd) == rnd + 50

\* Variant of ComponentName: the title, or the empty text when there is none.
ComponentName_Title(category, w) == IF "title" \in DOMAIN w THEN w.title ELSE ""

\* webComponent.title || `${category} Component`
ComponentName(category, w) ==
    IF Truthy(w, "title") THEN w.title ELSE category \o " Component"

\* The component selectWebComponent builds from the raw result w, the draw
\* rnd = Math.floor(Math.random() * 200) and the clock reading.
WebComponent(category, w, rnd, clock) ==
    [id |-> "web-" \o ToString(clock),
     name |-> ComponentName(category, w),
     price |-> extractNumericPrice(w),
     watts |-> EstimatedWatts(rnd),
     url |-> IF "url" \in DOMAIN w THEN w.url ELSE "undefined",
     rating |-> IF "rating" \in DOMAIN w THEN w.rating ELSE "undefined",
     snippet |-> IF "snippet" \in DOMAIN w THEN w.snippet ELSE "undefined"]

(***************************************************************************)
(* Inputs.                                                                 *)
(***************************************************************************)
\* A null or undefined argument.
Null == [null |-> TRUE]

\* "$1,234.56 (used)"
PriceUsed == <<"$", "1", ",", "2", "3", "4", ".", "5", "6", " ", "(", "u", "s", "e", "d", ")">>

\* "Contact for price"
PriceContact == <<"C", "o", "n", "t", "a", "c", "t", " ", "f", "o", "r", " ", "p", "r", "i", "c", "e">>

\* "N/A, call"
PriceCall == <<"N", "/", "A", ",", " ", "c", "a", "l", "l">>

\* Raw results of the search service: a full one, one without a title, and
\* one whose price text has a comma before any digit.
WebResults ==
    { [title |-> "AMD Ryzen 7 7800X3D", price |-> PriceUsed, rating |-> "4.8",
       snippet |-> "8 cores / 16 threads", url |-> "https://shop.example/r7"],
      [price |-> PriceContact, url |-> "https://shop.example/quote"],
      [title |-> "Open-box part", price |-> PriceCall, url |-> "https://shop.example/open-box"] }

\* Values of Math.floor(Math.random() * 200): the least and the greatest.
RandomDraws == {0, 199}

\* Components handed to window.selectComponent of Frontend/builder.js by a
\* caller other than selectWebComponent: one without a watts field.
DirectComponents ==
    { [id |-> "custom-1", name |-> "Passive riser", price |-> 2500] }

\* An id no catalog list holds.
UnknownId == "no-such-id"

\* The cards of a web builder the user works with: the first two, the power
\* supply and the one category only the web builders have.  The web builders
\* treat every category alike.
WebCategories == {"CPU", "GPU", "Power Supply", "Accessories"}

(***************************************************************************)
(* State.                                                                  *)
(***************************************************************************)
VARIABLES
    page,             \* the script that is loaded
    state,            \* const state = {}: category -> component
    totalPriceEl,     \* text of #totalPrice
    totalPriceClass,  \* className of #totalPrice
    wattBadgeEl,      \* text of #wattBadge
    perfScoreEl,      \* text of #perfScore
    psuHeadroomEl,    \* text of #psuHeadroom
    priceCell,        \* text of each category's price cell
    componentCountEl, \* text of #componentCount
    compatibilityBtn, \* #compatibilityCheckBtn: disabled, title
    now,              \* Date.now()
    lastOp,           \* the handler that ran last: what it did (kind), the category
                      \* and component of a selection, whether it threw
    modal,            \* #partModal: shown or not, text of #modalTitle
    modalContent,     \* what #modalContent shows
    searches,         \* calls of showWebResults waiting for searchParts
    searchesStarted,  \* number of calls of showWebResults
    requests,         \* fetches of /api/compatibility-check without a response
    checksStarted,    \* calls of checkBuildCompatibility so far
    compatView,       \* the .compatibility-results element
    compatibilityBtnHtml, \* innerHTML of #compatibilityCheckBtn
    priceCall         \* a call of extractNumericPrice: argument and result

vars == <<page, state, totalPriceEl, totalPriceClass, wattBadgeEl, perfScoreEl,
          psuHeadroomEl, priceCell, componentCountEl, compatibilityBtn, now, lastOp,
          modal, modalContent, searches, searchesStarted, requests, checksStarted,
          compatView, compatibilityBtnHtml, priceCall>>

\* What the search modal holds.
searchVars == <<modal, modalContent, searches, searchesStarted>>

\* What a search writes besides the modal itself.
searchOnly == <<modalContent, searches, searchesStarted>>

\* What a compatibility check writes besides the button's disabled flag.
checkVars == <<requests, checksStarted, compatView, compatibilityBtnHtml>>

\* Elements only updateSummary writes.
summaryOnly == <<wattBadgeEl, perfScoreEl, psuHeadroomEl>>

\* Elements only updatePriceTracker writes.
trackerOnly == <<totalPriceClass, componentCountEl, compatibilityBtn>>

NoArg == [none |-> TRUE]

\* lastOp after a handler.  kind says what the handler did, judged on the
\* state it started from: "select" (the category was free), "replace",
\* "remove", "remove-absent", "reset", "reset-empty", "reject" (the handler
\* returned early).  cat and arg are the category and component of a select
\* or replace.  With lastOp.track set, before holds the build and the
\* summary texts from before the last select or replace, and a remove of the
\* category that was selected just before is kind "undo-select" or
\* "undo-replace".
Op(kind, cat, arg, threw) ==
    [kind |-> kind, cat |-> cat, arg |-> arg, threw |-> threw,
     track |-> lastOp.track,
     before |-> IF lastOp.track /\ kind \in {"select", "replace"}
                THEN [state |-> state,
                      totalPriceEl |-> totalPriceEl,
                      wattBadgeEl |-> wattBadgeEl,
                      componentCountEl |-> componentCountEl]
                ELSE IF lastOp.track /\ kind \in {"undo-select", "undo-replace"}
                THEN lastOp.before
                ELSE NoArg]

\* A category that may take a selection within the bound.
Room(st, c) == c \in DOMAIN st \/ KeyCount(st) < MaxSelected

\* updateSummary() on the state st.
WriteSummary(p, st) ==
    \E s \in {updateSummary(p, st)} :
        /\ totalPriceEl' = s.totalPrice
        /\ wattBadgeEl' = s.wattBadge
        /\ perfScoreEl' = s.perfScore
        /\ psuHeadroomEl' = s.psuHeadroom
        /\ priceCell' = s.priceCell

\* updatePriceTracker() on the state st; Frontend/builder.js has no button.
WriteTracker(p, st) ==
    \E t \in {updatePriceTracker(p, st)} :
        /\ totalPriceEl' = t.totalPrice
        /\ totalPriceClass' = t.class
        /\ componentCountEl' = t.componentCount
        /\ compatibilityBtn' = IF p = MAIN THEN t.button ELSE compatibilityBtn

\* An element no script has written.
Unwritten == ""

\* closeModal() of Frontend/main.js; Frontend/builder.js only hides the modal.
closeModal(p, m) ==
    IF p = MAIN
    THEN [m EXCEPT !.display = "none", !.stickyTop = FALSE, !.bodyOverflow = "auto"]
    ELSE [m EXCEPT !.display = "none"]

NoButton == [disabled |-> FALSE, title |-> Unwritten]

(***************************************************************************)
(* app.js                                                                  *)
(***************************************************************************)
\* The option values of a category's <select>: "" and the catalog ids.
OptionValues(p, category) ==
    {""} \cup {CATALOG(p)[category][i].id : i \in 1..Len(CATALOG(p)[category])}

\* CATALOG[category].find((item) => item.id === itemId); Null for undefined.
CatalogFind(p, category, itemId) ==
    IF Find(CATALOG(p)[category], itemId) = 0 THEN Null
    ELSE CATALOG(p)[category][Find(CATALOG(p)[category], itemId)]

\* The build state after the change handler of category's <select>.
ChangeState(st, category, selectedId) ==
    IF selectedId # ""
    THEN Assign(st, category, CatalogFind(APP, category, selectedId))
    ELSE Delete(st, category)

\* How lastOp names a handler that sets (item) or deletes (Null) category.
OpKind(st, category, item) ==
    IF item = Null
    THEN (IF category \notin DOMAIN st THEN "remove-absent"
          ELSE IF lastOp.track /\ lastOp.cat = category /\ lastOp.kind = "select" THEN "undo-select"
          ELSE IF lastOp.track /\ lastOp.cat = category /\ lastOp.kind = "replace" THEN "undo-replace"
          ELSE "remove")
    ELSE (IF category \in DOMAIN st THEN "replace" ELSE "select")

\* How lastOp names a reset.
ResetKind(st) == IF DOMAIN st = {} THEN "reset-empty" ELSE "reset"

\* select.addEventListener("change", ...)
AppChange(category, selectedId) ==
    /\ page = APP
    /\ selectedId = "" \/ Room(state, category)
    /\ state' = ChangeState(state, category, selectedId)
    /\ WriteSummary(APP, state')
    /\ lastOp' = IF selectedId = ""
                 THEN Op(OpKind(state, category, Null), "", NoArg, FALSE)
                 ELSE Op(OpKind(state, category, NoArg), category,
                         CatalogFind(APP, category, selectedId), FALSE)
    /\ UNCHANGED <<page, now, trackerOnly, searchVars, checkVars, priceCall>>

\* Variant of ResetState: the selects are reset, the state is not.
ResetState_Keep(st) == st

\* The build state after resetBuild.
ResetState(st) == [k \in {} |-> st[k]]

\* resetBuild of app.js
AppReset ==
    /\ page = APP
    /\ state' = ResetState(state)
    /\ WriteSummary(APP, state')
    /\ lastOp' = Op(ResetKind(state), "", NoArg, FALSE)
    /\ UNCHANGED <<page, now, trackerOnly, searchVars, checkVars, priceCall>>

(***************************************************************************)
(* builder.js                                                              *)
(***************************************************************************)
\* Variant of SelectCatalogState: without the return for an item not found.
SelectCatalogState_Unchecked(st, category, itemId) ==
    Assign(st, category, CatalogFind(BUILDER, category, itemId))

\* The build state after selectComponent(category, itemId) of builder.js.
SelectCatalogState(st, category, itemId) ==
    IF CatalogFind(BUILDER, category, itemId) = Null THEN st
    ELSE Assign(st, category, CatalogFind(BUILDER, category, itemId))

\* selectComponent(category, itemId) of builder.js.  After the state update
\* the handler reads modal.dataset.currentContainer, which is a string (or
\* undefined), and calls querySelector on it: a TypeError ends the handler
\* before it touches the card or the modal.
BuilderSelectComponent(category, itemId) ==
    /\ page = BUILDER
    /\ Room(state, category)
    /\ state' = SelectCatalogState(state, category, itemId)
    /\ lastOp' = IF CatalogFind(BUILDER, category, itemId) = Null
                 THEN Op("reject", "", NoArg, FALSE)
                 ELSE Op(OpKind(state, category, NoArg), category,
                         CatalogFind(BUILDER, category, itemId), TRUE)
    /\ UNCHANGED <<page, now, totalPriceEl, priceCell, summaryOnly, trackerOnly,
                   searchVars, checkVars, priceCall>>

\* resetBuild of builder.js: the state and every card.
BuilderReset ==
    /\ page = BUILDER
    /\ state' = ResetState(state)
    /\ priceCell' = [c \in Categories(BUILDER) |-> "$0"]
    /\ lastOp' = Op(ResetKind(state), "", NoArg, FALSE)
    /\ UNCHANGED <<page, now, totalPriceEl, summaryOnly, trackerOnly,
                   searchVars, checkVars, priceCall>>

(***************************************************************************)
(* Frontend/main.js                                                        *)
(***************************************************************************)
\* The build state after selectComponent(category, customComponent).
SelectState(st, category, customComponent) ==
    IF customComponent = Null THEN st ELSE Assign(st, category, customComponent)

\* selectWebComponent(category, webComponent) and the selectComponent it calls.
MainSelectWebComponent(category, webComponent, rnd) ==
    /\ page = MAIN
    /\ Room(state, category)
    /\ IF webComponent = Null
       THEN /\ lastOp' = Op("reject", "", NoArg, FALSE)
            /\ UNCHANGED <<state, totalPriceEl, priceCell, trackerOnly, modal>>
       ELSE \E customComponent \in {WebComponent(category, webComponent, rnd, now)} :
            /\ state' = SelectState(state, category, customComponent)
            /\ priceCell' = [priceCell EXCEPT ![category] = "$" \o NumberText(customComponent.price)]
            /\ WriteTracker(MAIN, state')
            /\ modal' = closeModal(MAIN, modal)
            /\ lastOp' = Op(OpKind(state, category, NoArg), category, customComponent, FALSE)
    /\ UNCHANGED <<page, now, summaryOnly, searchOnly, checkVars, priceCall>>

\* Variant of RemoveState: the whole state is cleared.
RemoveState_Clear(st, category) == [k \in {} |-> st[k]]

\* The build state after removeComponent(category).
RemoveState(st, category) == Delete(st, category)

\* removeComponent(category)
MainRemoveComponent(category) ==
    /\ page = MAIN
    /\ state' = RemoveState(state, category)
    /\ priceCell' = [priceCell EXCEPT ![category] = "$0"]
    /\ WriteTracker(MAIN, state')
    /\ lastOp' = Op(OpKind(state, category, Null), "", NoArg, FALSE)
    /\ UNCHANGED <<page, now, summaryOnly, searchVars, checkVars, priceCall>>

(***************************************************************************)
(* Frontend/builder.js                                                     *)
(***************************************************************************)
\* The build state after selectComponent(category, itemId, customComponent).
SelectCustomState(st, category, customComponent) ==
    IF customComponent = Null THEN st ELSE Assign(st, category, customComponent)

\* selectComponent(category, itemId, customComponent = null)
FBuilderSelect(category, customComponent) ==
    IF customComponent = Null
    THEN /\ lastOp' = Op("reject", "", NoArg, FALSE)
         /\ UNCHANGED <<state, totalPriceEl, priceCell, trackerOnly, modal>>
    ELSE /\ state' = SelectCustomState(state, category, customComponent)
         /\ priceCell' = [priceCell EXCEPT ![category] = "$" \o NumberText(customComponent.price)]
         /\ WriteTracker(FBUILDER, state')
         /\ modal' = closeModal(FBUILDER, modal)
         /\ lastOp' = Op(OpKind(state, category, NoArg), category, customComponent, FALSE)

\* selectWebComponent(category, webComponent) and the selectComponent it calls.
FBuilderSelectWebComponent(category, webComponent, rnd) ==
    /\ page = FBUILDER
    /\ Room(state, category)
    /\ IF webComponent = Null
       THEN /\ lastOp' = Op("reject", "", NoArg, FALSE)
            /\ UNCHANGED <<state, totalPriceEl, priceCell, trackerOnly, modal>>
       ELSE FBuilderSelect(category, WebComponent(category, webComponent, rnd, now))
    /\ UNCHANGED <<page, now, summaryOnly, searchOnly, checkVars, priceCall>>

\* window.selectComponent(category, itemId, customComponent) called directly.
FBuilderSelectComponent(category, customComponent) ==
    /\ page = FBUILDER
    /\ Room(state, category)
    /\ FBuilderSelect(category, customComponent)
    /\ UNCHANGED <<page, now, summaryOnly, searchOnly, checkVars, priceCall>>

(***************************************************************************)
(* Frontend/main.js and Frontend/builder.js: the search modal.             *)
(***************************************************************************)
\* `${category} computer component`
SearchQuery(category) == category \o " computer component"

\* The body of the POST to /api/mcp-search.
SearchRequest(query, maxResults, comparePrices) ==
    [query |-> query, max_results |-> maxResults, compare_prices |-> comparePrices]

\* The value the catch block of searchParts returns.
SearchUnavailable(query) ==
    [query |-> query,
     source |-> "Error",
     results |-> [query |-> query, results |-> <<>>,
                  message |-> "Search service unavailable"]]

\* What throws inside the try block of searchParts: the rejected fetch, the
\* `throw new Error` for !response.ok, the rejected response.json().
SearchThrows(response) ==
    \/ response.fetch = "rejected"
    \/ ~response.ok
    \/ response.json = "rejected"

\* Variant of searchParts: without its catch block.
searchParts_NoCatch(query, response) ==
    IF SearchThrows(response)
    THEN [threw |-> TRUE, value |-> Null]
    ELSE [threw |-> FALSE, value |-> response.body]

\* How `await mcpSearch.searchParts(query, 15, true)` completes on a response.
searchParts(query, response) ==
    IF SearchThrows(response)
    THEN [threw |-> FALSE, value |-> SearchUnavailable(query)]
    ELSE [threw |-> FALSE, value |-> response.body]

\* searchResults.results && searchResults.results.results &&
\* searchResults.results.results.length > 0
HasResults(searchResults) ==
    /\ "results" \in DOMAIN searchResults
    /\ "results" \in DOMAIN searchResults.results
    /\ Len(searchResults.results.results) > 0

\* What showWebResults writes to #modalContent once searchParts completed.
\* search, response and completion tell which call of showWebResults wrote
\* it, on which response, and how searchParts completed.
WebResultsView(category, search, response, completion) ==
    IF completion.threw \/ completion.value = Null
    THEN [view |-> "search-error", category |-> category, items |-> <<>>, found |-> 0,
          search |-> search, response |-> response, completion |-> completion]
    ELSE IF HasResults(completion.value)
    THEN [view |-> "results", category |-> category,
          items |-> completion.value.results.results,
          found |-> Len(completion.value.results.results),
          search |-> search, response |-> response, completion |-> completion]
    ELSE [view |-> "no-results", category |-> category, items |-> <<>>, found |-> 0,
          search |-> search, response |-> response, completion |-> completion]

\* The loading view of showWebResults.
SearchLoading(category) == [view |-> "loading", category |-> category]

\* showWebResults(category) up to its await: the loading view and the request.
StartSearch(category) ==
    /\ searchesStarted < MaxSearches
    /\ searchesStarted' = searchesStarted + 1
    /\ modalContent' = SearchLoading(category)
    /\ searches' = searches \cup
           {[search |-> searchesStarted + 1, category |-> category,
             request |-> SearchRequest(SearchQuery(category), 15, TRUE)]}

\* The modal after openComponentSearch(category).
openModal(p, m, category) ==
    IF p = MAIN
    THEN [m EXCEPT !.display = "flex", !.title = "Select " \o category,
                   !.stickyTop = TRUE, !.bodyOverflow = "hidden"]
    ELSE [m EXCEPT !.display = "flex", !.title = "Select " \o category]

\* openComponentSearch(category)
OpenComponentSearch(category) ==
    /\ page \in WebPages
    /\ modal' = openModal(page, modal, category)
    /\ StartSearch(category)
    /\ lastOp' = Op("open-search", category, NoArg, FALSE)
    /\ UNCHANGED <<page, state, now, totalPriceEl, priceCell, trackerOnly, summaryOnly,
                   checkVars, priceCall>>

\* showWebResults(category), called by the refresh and retry buttons of the
\* view on display.
ShowWebResults ==
    /\ page \in WebPages
    /\ modal.display = "flex"
    /\ modalContent.view \in {"results", "no-results", "search-error"}
    /\ StartSearch(modalContent.category)
    /\ lastOp' = Op("search", modalContent.category, NoArg, FALSE)
    /\ UNCHANGED <<page, state, now, totalPriceEl, priceCell, trackerOnly, summaryOnly,
                   modal, checkVars, priceCall>>

\* Variant of ClosureCategory: the category the modal was opened for last.
ClosureCategory_Modal(s, m) == CHOOSE c \in WebCategories : m.title = "Select " \o c

\* The `category` parameter of the call of showWebResults that made search s,
\* which the handlers of the rendered view carry.
ClosureCategory(s, m) == s.category

\* showWebResults from the await of searchParts to its end.
SearchResponse(s, response) ==
    /\ page \in WebPages
    /\ s \in searches
    /\ searches' = searches \ {s}
    /\ modalContent' = WebResultsView(ClosureCategory(s, modal), s.search, response,
                                      searchParts(s.request.query, response))
    /\ lastOp' = Op("search-response", s.category, NoArg, FALSE)
    /\ UNCHANGED <<page, state, now, totalPriceEl, priceCell, trackerOnly, summaryOnly,
                   modal, searchesStarted, checkVars, priceCall>>

\* The close button of the modal and a click outside it.
CloseModal ==
    /\ page \in WebPages
    /\ modal.display = "flex"
    /\ modal' = closeModal(page, modal)
    /\ lastOp' = Op("close-modal", "", NoArg, FALSE)
    /\ UNCHANGED <<page, state, now, totalPriceEl, priceCell, trackerOnly, summaryOnly,
                   searchOnly, checkVars, priceCall>>

\* Date.now() reads a later millisecond.
Tick ==
    /\ now < MaxClock
    /\ now' = now + 1
    /\ lastOp' = Op("tick", "", NoArg, FALSE)
    /\ UNCHANGED <<page, state, totalPriceEl, priceCell, trackerOnly, summaryOnly,
                   searchVars, checkVars, priceCall>>

\* A click on item i of the results on display.
SelectShownResult(i, rnd) ==
    /\ modal.display = "flex"
    /\ modalContent.view = "results"
    /\ i \in 1..Len(modalContent.items)
    /\ \/ MainSelectWebComponent(modalContent.category, modalContent.items[i], rnd)
       \/ FBuilderSelectWebComponent(modalContent.category, modalContent.items[i], rnd)

(***************************************************************************)
(* Frontend/main.js: the compatibility check.                              *)
(***************************************************************************)
\* The report checkBuildCompatibility shows for a build without components.
NoComponentsReport ==
    [build_status |-> "no_components",
     summary |-> "Please select some components first to check compatibility.",
     compatibility_issues |-> <<>>,
     power_analysis |-> Null,
     components_analyzed |-> 0]

\* The report of the catch block.
ErrorReport ==
    [build_status |-> "error",
     summary |-> "Unable to check compatibility. Please try again later.",
     compatibility_issues |-> <<>>,
     power_analysis |-> Null,
     components_analyzed |-> 0]

\* The switch on report.build_status.
StatusClass(report) ==
    IF "build_status" \in DOMAIN report
       /\ report.build_status \in {"compatible", "warning", "incompatible"}
    THEN report.build_status
    ELSE "warning"

\* `${report.components_analyzed || 0}`
AnalyzedText(report) ==
    IF "components_analyzed" \in DOMAIN report
    THEN ToString(report.components_analyzed) ELSE "0"

\* `${report.summary}`
SummaryText(report) ==
    IF "summary" \in DOMAIN report THEN report.summary ELSE "undefined"

\* The element showCompatibilityResults(report) builds.  check, startedOn and
\* outcome say which call of checkBuildCompatibility rendered it, on which
\* build that call began and whether its fetch brought a report of the
\* service ("report"), none ("failed"), or was never made ("none").
showCompatibilityResults(report, check, startedOn, outcome) ==
    [view |-> "results",
     statusClass |-> StatusClass(report),
     summary |-> SummaryText(report),
     issues |-> IF "compatibility_issues" \in DOMAIN report
                THEN report.compatibility_issues ELSE <<>>,
     power |-> IF "power_analysis" \in DOMAIN report
               THEN report.power_analysis ELSE Null,
     analyzed |-> AnalyzedText(report),
     report |-> report,
     check |-> check,
     startedOn |-> startedOn,
     outcome |-> outcome]

\* The element showCompatibilityLoading() builds.
CompatibilityLoading == [view |-> "loading"]

\* Variant of IsEmptyBuild: the early return is missing.
IsEmptyBuild_Never(st) == FALSE

\* Object.keys(state).length === 0
IsEmptyBuild(st) == KeyCount(st) = 0

\* Variant of RequestBody: the body names no component.
RequestBody_Empty(st) == [components |-> [k \in {} |-> st[k]]]

\* JSON.stringify({ components: state }), evaluated when fetch is called.
RequestBody(st) == [components |-> st]

\* Variant of CheckedState: the handler clears the build it has sent.
CheckedState_Cleared(st) == [k \in {} |-> st[k]]

\* The build state after checkBuildCompatibility and after the rendering of
\* its response: the handler reads state and assigns nothing to it.
CheckedState(st) == st

\* checkBuildCompatibility(), up to its await.
CheckBuildCompatibility ==
    /\ page = MAIN
    /\ checksStarted < MaxChecks
    /\ checksStarted' = checksStarted + 1
    /\ IF IsEmptyBuild(state)
       THEN /\ compatView' = showCompatibilityResults(NoComponentsReport,
                                    checksStarted + 1, state, "none")
            /\ lastOp' = Op("check-empty", "", NoArg, FALSE)
            /\ UNCHANGED <<requests, compatibilityBtn, compatibilityBtnHtml>>
       ELSE /\ compatibilityBtn' = [compatibilityBtn EXCEPT !.disabled = TRUE]
            /\ compatibilityBtnHtml' = "Checking..."
            /\ compatView' = CompatibilityLoading
            /\ requests' = requests \cup
                    {[check |-> checksStarted + 1, body |-> RequestBody(state),
                      startedOn |-> state]}
            /\ lastOp' = Op("check", "", NoArg, FALSE)
    /\ state' = CheckedState(state)
    /\ UNCHANGED <<page, now, totalPriceEl, totalPriceClass, componentCountEl,
                   priceCell, summaryOnly, searchVars, priceCall>>

\* The compatibility service (Backend, not part of the sources at hand), as
\* section 4.4 of the specification describes it: the load is the watts of
\* everything but the power supply; a load above the supply's watts is
\* incompatible, a headroom below the safety margin a warning.
SafetyMargin == 20

RECURSIVE LoadFrom(_, _)
LoadFrom(components, S) ==
    IF S = {} THEN 0
    ELSE LET c == CHOOSE x \in S : TRUE
         IN  (IF "watts" \in DOMAIN components[c] THEN components[c].watts ELSE 0)
                + LoadFrom(components, S \ {c})

Load(components) == LoadFrom(components, DOMAIN components \ {"Power Supply"})

NegativeHeadroom(components) ==
    /\ "Power Supply" \in DOMAIN components
    /\ Load(components) > components["Power Supply"].watts

LowHeadroom(components) ==
    /\ "Power Supply" \in DOMAIN components
    /\ 100 * (components["Power Supply"].watts - Load(components))
            < SafetyMargin * components["Power Supply"].watts

PowerIssue(severity) ==
    [issue |-> "Load exceeds or nearly exceeds the power supply's rated wattage",
     suggestion |-> "Pick a power supply with a higher wattage",
     severity |-> severity]

PowerAnalysis(components) ==
    [recommended_psu_wattage |-> (((3 * Load(components)) \div 2 + 49) \div 50) * 50,
     explanation |-> "Load with half as much again, rounded up to 50 W"]

Evaluate(components) ==
    IF KeyCount(components) = 0 THEN NoComponentsReport
    ELSE [build_status |-> IF NegativeHeadroom(components) THEN "incompatible"
                           ELSE IF LowHeadroom(components) THEN "warning"
                           ELSE "compatible",
          summary |-> IF NegativeHeadroom(components) THEN "The power supply is too small."
                      ELSE IF LowHeadroom(components) THEN "The power supply has little headroom."
                      ELSE "No issue found.",
          compatibility_issues |->
                IF NegativeHeadroom(components) THEN <<PowerIssue("critical")>>
                ELSE IF LowHeadroom(components) THEN <<PowerIssue("warning")>>
                ELSE <<>>,
          power_analysis |-> PowerAnalysis(components),
          components_analyzed |-> KeyCount(components)]

\* What a fetch of /api/compatibility-check can come to: the fetch rejects,
\* the response is not ok, its body is not JSON, the JSON has no
\* compatibility_report, the compatibility_report is an object without
\* fields, or it is the service's report.
FetchFailures == {"network-error", "http-error", "invalid-json"}

FetchOutcomes == FetchFailures \cup {"no-report", "empty-report", "report"}

\* Whether a fetch ended in a report of the service ("report"), or in none
\* ("failed").
OutcomeClass(outcome) == IF outcome = "report" THEN "report" ELSE "failed"

\* A compatibility_report that is {}.
EmptyReport == [f \in {} |-> Null]

\* Variant of SentComponents: the service is handed the build of the moment
\* the response is made.
SentComponents_Live(req, st) == st

\* The components the service analyses for a request: those of the body,
\* which was serialised when fetch was called.
SentComponents(req, st) == req.body.components

\* The outcomes that throw inside the try block: the rejected fetch, the
\* `throw new Error` for !response.ok, the rejected response.json(), and the
\* TypeError of showCompatibilityResults(undefined) reading
\* report.build_status.
Thrown(outcome) == outcome \in FetchFailures \cup {"no-report"}

\* The rest of checkBuildCompatibility(), from the response of its fetch on:
\* the report or the catch block, then the finally block.
\* Variant of ButtonAfterCheck: the button is left as it is.
ButtonAfterCheck_Stuck(btn) == btn

\* finally: compatibilityBtn.disabled = false
ButtonAfterCheck(btn) == [btn EXCEPT !.disabled = FALSE]

CompatibilityResponse(req, outcome) ==
    /\ page = MAIN
    /\ req \in requests
    /\ requests' = requests \ {req}
    /\ compatView' =
          IF Thrown(outcome)
          THEN showCompatibilityResults(ErrorReport, req.check, req.startedOn,
                                        OutcomeClass(outcome))
          ELSE IF outcome = "empty-report"
          THEN showCompatibilityResults(EmptyReport, req.check, req.startedOn,
                                        OutcomeClass(outcome))
          ELSE showCompatibilityResults(Evaluate(SentComponents(req, state)),
                                        req.check, req.startedOn, OutcomeClass(outcome))
    /\ compatibilityBtn' = ButtonAfterCheck(compatibilityBtn)
    /\ compatibilityBtnHtml' = "Check Compatibility"
    /\ state' = CheckedState(state)
    /\ lastOp' = Op("check-response", "", NoArg, FALSE)
    /\ UNCHANGED <<page, now, totalPriceEl, totalPriceClass, componentCountEl,
                   priceCell, summaryOnly, searchVars, priceCall, checksStarted>>

(***************************************************************************)
(* Specification.                                                          *)
(***************************************************************************)
\* app.js after DOMContentLoaded: buildTable(), updateSummary().
InitApp ==
    /\ page = APP
    /\ state = <<>>
    /\ totalPriceEl = updateSummary(APP, <<>>).totalPrice
    /\ wattBadgeEl = updateSummary(APP, <<>>).wattBadge
    /\ perfScoreEl = updateSummary(APP, <<>>).perfScore
    /\ psuHeadroomEl = updateSummary(APP, <<>>).psuHeadroom
    /\ priceCell = updateSummary(APP, <<>>).priceCell
    /\ totalPriceClass = Unwritten
    /\ componentCountEl = Unwritten
    /\ compatibilityBtn = NoButton

\* builder.js after DOMContentLoaded: buildComponentsGrid().
InitBuilder ==
    /\ page = BUILDER
    /\ state = <<>>
    /\ priceCell = [c \in Categories(BUILDER) |-> "$0"]
    /\ totalPriceEl = Unwritten
    /\ wattBadgeEl = Unwritten
    /\ perfScoreEl = Unwritten
    /\ psuHeadroomEl = Unwritten
    /\ totalPriceClass = Unwritten
    /\ componentCountEl = Unwritten
    /\ compatibilityBtn = NoButton

\* A web builder after DOMContentLoaded: buildComponentsGrid(), which ends
\* with updatePriceTracker().
InitWeb(p) ==
    /\ page = p
    /\ state = <<>>
    /\ priceCell = [c \in Categories(p) |-> "$0"]
    /\ totalPriceEl = updatePriceTracker(p, <<>>).totalPrice
    /\ totalPriceClass = updatePriceTracker(p, <<>>).class
    /\ componentCountEl = updatePriceTracker(p, <<>>).componentCount
    /\ compatibilityBtn = IF p = MAIN THEN updatePriceTracker(p, <<>>).button ELSE NoButton
    /\ wattBadgeEl = Unwritten
    /\ perfScoreEl = Unwritten
    /\ psuHeadroomEl = Unwritten

\* The search modal and the compatibility panel of a page just loaded; no
\* call of extractNumericPrice.
NoModal == [display |-> "none", title |-> Unwritten, stickyTop |-> FALSE,
            bodyOverflow |-> Unwritten]

NoView == [view |-> "none"]

NoPriceCall == [called |-> FALSE]

\* No search and no compatibility check has been started.
InitIdle ==
    /\ modal = NoModal
    /\ modalContent = NoView
    /\ searches = {}
    /\ searchesStarted = 0
    /\ requests = {}
    /\ checksStarted = 0
    /\ compatView = NoView
    /\ compatibilityBtnHtml = Unwritten

InitRest ==
    /\ InitIdle
    /\ priceCall = NoPriceCall

InitOp(track) ==
    [kind |-> "init", cat |-> "", arg |-> NoArg, threw |-> FALSE,
     track |-> track, before |-> NoArg]

Init ==
    /\ InitApp \/ InitBuilder \/ InitWeb(MAIN) \/ InitWeb(FBUILDER)
    /\ now = 0
    /\ lastOp = InitOp(FALSE)
    /\ InitRest

Next ==
    \/ \E category \in Categories(APP) :
         \E selectedId \in OptionValues(APP, category) : AppChange(category, selectedId)
    \/ AppReset
    \/ \E category \in Categories(BUILDER) :
         \E itemId \in (OptionValues(BUILDER, category) \ {""}) \cup {UnknownId} :
            BuilderSelectComponent(category, itemId)
    \/ BuilderReset
    \/ \E category \in WebCategories, webComponent \in WebResults \cup {Null}, rnd \in RandomDraws :
         MainSelectWebComponent(category, webComponent, rnd)
    \/ \E category \in WebCategories : MainRemoveComponent(category)
    \/ \E category \in WebCategories, webComponent \in WebResults \cup {Null}, rnd \in RandomDraws :
         FBuilderSelectWebComponent(category, webComponent, rnd)
    \/ \E category \in WebCategories, customComponent \in DirectComponents \cup {Null} :
         FBuilderSelectComponent(category, customComponent)

Spec == Init /\ [][Next]_vars

\* The two pages that can remove a component, with lastOp keeping the build
\* from before a select.
InitRoundTrip ==
    /\ InitApp \/ InitWeb(MAIN)
    /\ now = 0
    /\ lastOp = InitOp(TRUE)
    /\ InitRest

NextRoundTrip ==
    \/ \E category \in Categories(APP) :
         \E selectedId \in OptionValues(APP, category) : AppChange(category, selectedId)
    \/ AppReset
    \/ \E category \in WebCategories, webComponent \in WebResults \cup {Null}, rnd \in RandomDraws :
         MainSelectWebComponent(category, webComponent, rnd)
    \/ \E category \in WebCategories : MainRemoveComponent(category)

SpecRoundTrip == InitRoundTrip /\ [][NextRoundTrip]_vars


(***************************************************************************)
(* updateSummary on its own: the builds over CPU, GPU and Power Supply of  *)
(* a catalog page, the power supply also drawn as the 650 W unit at $109   *)
(* of the example scenario, and one call of updateSummary on each.         *)
(***************************************************************************)
ExamplePsu == [id |-> "psu-example", name |-> "650W PSU", price |-> 109, watts |-> 650]

SummaryCategories == {"CPU", "GPU", "Power Supply"}

SummaryChoices(p, c) ==
    {CATALOG(p)[c][i] : i \in 1..Len(CATALOG(p)[c])}
        \cup (IF c = "Power Supply" THEN {ExamplePsu} ELSE {})

SummaryBuilds(p) ==
    UNION {{st \in [S -> UNION {SummaryChoices(p, c) : c \in S}] :
                \A c \in S : st[c] \in SummaryChoices(p, c)} : S \in SUBSET SummaryCategories}

InitSummary ==
    /\ page \in CatalogPages
    /\ state \in SummaryBuilds(page)
    /\ priceCell = [c \in Categories(page) |-> "$0"]
    /\ totalPriceEl = Unwritten
    /\ wattBadgeEl = Unwritten
    /\ perfScoreEl = Unwritten
    /\ psuHeadroomEl = Unwritten
    /\ totalPriceClass = Unwritten
    /\ componentCountEl = Unwritten
    /\ compatibilityBtn = NoButton
    /\ now = 0
    /\ lastOp = InitOp(FALSE)
    /\ InitRest

\* updateSummary()
CallUpdateSummary ==
    /\ page \in CatalogPages
    /\ lastOp.kind = "init"
    /\ WriteSummary(page, state)
    /\ lastOp' = Op("updateSummary", "", NoArg, FALSE)
    /\ UNCHANGED <<page, state, now, trackerOnly, searchVars, checkVars, priceCall>>

NextSummary == CallUpdateSummary

SpecSummary == InitSummary /\ [][NextSummary]_vars

(***************************************************************************)
(* Frontend/main.js with its compatibility check: a CPU and a power supply *)
(* are selected and removed while checks are started and answered.         *)
(***************************************************************************)
CompatCategories == {"CPU", "Power Supply"}

\* The selections made: a CPU drawn at 249 W, a power supply at 50 W or 249 W.
CompatSelections == {<<"CPU", 199>>, <<"Power Supply", 0>>, <<"Power Supply", 199>>}

CompatResults ==
    { [title |-> "AMD Ryzen 7 7800X3D", price |-> PriceUsed, rating |-> "4.8",
       snippet |-> "8 cores / 16 threads", url |-> "https://shop.example/r7"] }

InitCompat ==
    /\ InitWeb(MAIN)
    /\ now = 0
    /\ lastOp = InitOp(FALSE)
    /\ InitRest

NextCompat ==
    \/ \E sel \in CompatSelections, webComponent \in CompatResults :
         MainSelectWebComponent(sel[1], webComponent, sel[2])
    \/ \E category \in CompatCategories : MainRemoveComponent(category)
    \/ CheckBuildCompatibility
    \/ \E req \in requests, outcome \in FetchOutcomes : CompatibilityResponse(req, outcome)

SpecCompat == InitCompat /\ [][NextCompat]_vars

(***************************************************************************)
(* The search modal of the two web builders: searches are opened, repeated *)
(* and answered in any order, and shown results are selected.              *)
(***************************************************************************)
SearchCategories == {"CPU", "Power Supply"}

\* A result without a title and with a price that holds no number.
BareResult == [price |-> PriceContact, url |-> "https://shop.example/quote"]

\* The page a result found for the query links to.
ResultUrl(query) == "https://shop.example/search?q=" \o query

\* The raw result w as the service finds it for the query.
ResultFor(query, w) == [w EXCEPT !.url = ResultUrl(query)]

\* The JSON bodies of a 2xx response: results, an empty list, no list, null.
SearchBodies(query) ==
    { [query |-> query, source |-> "MCP Web Search",
       results |-> [query |-> query, results |-> items]] :
         items \in {<<>>} \cup {<<ResultFor(query, w)>> : w \in CompatResults} \cup
                   {<<ResultFor(query, w), ResultFor(query, BareResult)>> : w \in CompatResults} }
    \cup {[query |-> query, source |-> "MCP Web Search"], Null}

\* The responses to a search: the fetch rejects, the status is not 2xx, the
\* body is not JSON, or the body is one of SearchBodies.
SearchResponses(query) ==
    {[fetch |-> "rejected", ok |-> FALSE, json |-> "rejected", body |-> Null],
     [fetch |-> "resolved", ok |-> FALSE, json |-> "unread", body |-> Null],
     [fetch |-> "resolved", ok |-> TRUE, json |-> "rejected", body |-> Null]}
    \cup {[fetch |-> "resolved", ok |-> TRUE, json |-> "resolved", body |-> b] :
            b \in SearchBodies(query)}

InitSearch ==
    /\ InitWeb(MAIN) \/ InitWeb(FBUILDER)
    /\ now = 0
    /\ lastOp = InitOp(FALSE)
    /\ InitRest

NextSearch ==
    \/ \E category \in SearchCategories : OpenComponentSearch(category)
    \/ ShowWebResults
    \/ \E s \in searches : \E response \in SearchResponses(s.request.query) :
         SearchResponse(s, response)
    \/ CloseModal
    \/ \E i \in 1..2 : SelectShownResult(i, 199)
    \/ Tick

SpecSearch == InitSearch /\ [][NextSearch]_vars

\* The selects of the four pages: from the catalog lists of app.js and
\* builder.js, and from the search results of the web builders.
InitOrigin ==
    /\ InitApp \/ InitBuilder \/ InitWeb(MAIN) \/ InitWeb(FBUILDER)
    /\ now = 0
    /\ lastOp = InitOp(FALSE)
    /\ InitRest

NextOrigin ==
    \/ NextSearch
    \/ \E category \in SummaryCategories :
         \E selectedId \in OptionValues(APP, category) : AppChange(category, selectedId)
    \/ \E category \in SummaryCategories :
         \E itemId \in (OptionValues(BUILDER, category) \ {""}) \cup {UnknownId} :
            BuilderSelectComponent(category, itemId)

SpecOrigin == InitOrigin /\ [][NextOrigin]_vars

(***************************************************************************)
(* extractNumericPrice of the two web builders, applied to the price of a  *)
(* raw search result.                                                      *)
(***************************************************************************)
\* A currency symbol, a digit, the separators, and a letter.
PriceAlphabet == {"$", "7", ",", ".", "x"}

\* The price texts over PriceAlphabet, the empty text included.
PriceTexts == UNION {[1..n -> PriceAlphabet] : n \in 0..MaxPriceLen}

\* Raw results: one for each price text, the three texts of WebResults, and
\* a result without a price.
PriceInputs ==
    {[price |-> text] : text \in PriceTexts \cup {PriceUsed, PriceContact, PriceCall}}
    \cup {[title |-> "Component"]}

InitPrice ==
    /\ InitWeb(MAIN) \/ InitWeb(FBUILDER)
    /\ now = 0
    /\ lastOp = InitOp(FALSE)
    /\ InitIdle
    /\ priceCall \in {[called |-> FALSE, input |-> w] : w \in PriceInputs}

\* extractNumericPrice(webComponent.price)
CallExtractNumericPrice ==
    /\ page \in WebPages
    /\ ~priceCall.called
    /\ priceCall' = [called |-> TRUE, input |-> priceCall.input,
                     result |-> extractNumericPrice(priceCall.input)]
    /\ lastOp' = Op("extractNumericPrice", "", NoArg, FALSE)
    /\ UNCHANGED <<page, state, now, totalPriceEl, priceCell, trackerOnly, summaryOnly,
                   searchVars, checkVars>>

NextPrice == CallExtractNumericPrice

SpecPrice == InitPrice /\ [][NextPrice]_vars

\* The outcomes of a request taken for the progress of a check: the fetch
\* rejects, or the service returns its report.
LiveOutcomes == {"network-error", "report"}

\* The selections made while checks progress: one CPU, one power supply.
LiveSelections == {<<"CPU", 199>>, <<"Power Supply", 0>>}

\* The request of check k resolves or rejects, and the handler goes on.
Respond(k) ==
    \E req \in requests, outcome \in LiveOutcomes :
        req.check = k /\ CompatibilityResponse(req, outcome)

NextCompatLive ==
    \/ \E sel \in LiveSelections, webComponent \in CompatResults :
         MainSelectWebComponent(sel[1], webComponent, sel[2])
    \/ MainRemoveComponent("CPU")
    \/ CheckBuildCompatibility
    \/ \E k \in 1..MaxChecks : Respond(k)

\* Every request sent is answered or fails in the end.
FairCompat == \A k \in 1..MaxChecks : WF_vars(Respond(k))

SpecCompatLive == InitCompat /\ [][NextCompatLive]_vars /\ FairCompat

\* A click on #compatibilityCheckBtn: a disabled button fires no click.
ClickCompatibilityBtn ==
    /\ ~compatibilityBtn.disabled
    /\ CheckBuildCompatibility

\* Frontend/main.js as its page drives it: checks start by the button only.
NextButton ==
    \/ \E sel \in CompatSelections, webComponent \in CompatResults :
         MainSelectWebComponent(sel[1], webComponent, sel[2])
    \/ \E category \in CompatCategories : MainRemoveComponent(category)
    \/ ClickCompatibilityBtn
    \/ \E req \in requests, outcome \in FetchOutcomes : CompatibilityResponse(req, outcome)

SpecButton == InitCompat /\ [][NextButton]_vars

\* The handlers that compute aggregates or check compatibility: those of
\* Frontend/main.js, and updateSummary on the builds of the catalog pages.
InitFrame == InitCompat \/ InitSummary

NextFrame == NextCompat \/ NextSummary

SpecFrame == InitFrame /\ [][NextFrame]_vars

(***************************************************************************)
(* The aggregates as sums over the set of selected categories, in no       *)
(* order.                                                                  *)
(***************************************************************************)
\* Field f of a component, 0 for a component without it.
FieldOr0(item, f) == IF f \in DOMAIN item THEN item[f] ELSE 0

RECURSIVE SumOver(_, _, _)
SumOver(st, S, f) ==
    IF S = {} THEN 0
    ELSE LET c == CHOOSE x \in S : TRUE
         IN  FieldOr0(st[c], f) + SumOver(st, S \ {c}, f)

\* A sum of prices is not a number as soon as one of them is not.
SumOfPrices(st) ==
    IF \E c \in DOMAIN st : IsNaN(st[c].price) THEN NaN
    ELSE SumOver(st, DOMAIN st, "price")

SumOfWatts(st) == SumOver(st, DOMAIN st, "watts")

SumOfScores(st) == SumOver(st, DOMAIN st \cap {"CPU", "GPU"}, "score")

\* The total price / total watts a page computes for a build.  main.js
\* computes no watts: there the total is the sum itself.
TotalPriceOf(p, st) ==
    IF p \in CatalogPages THEN SummaryTotals(p, st).total ELSE calculateTotalPrice(p, st)

TotalWattsOf(p, st) ==
    IF p \in CatalogPages THEN SummaryTotals(p, st).totalWatts
    ELSE IF p = FBUILDER THEN calculateTotalWatts(p, st)
    ELSE SumOfWatts(st)

\* The text a page shows for a total price.
TotalPriceText(p, total) ==
    IF p \in CatalogPages THEN "$" \o ToString(total) ELSE "$" \o toLocaleString(total)

\* The pages whose handlers refresh the displayed total price.
ShowsTotal == {APP, MAIN, FBUILDER}

(***************************************************************************)
(* Claims.                                                                 *)
(***************************************************************************)
\* C1: in every reachable build of every page the total price the page
\* computes is the sum of the prices of the selected components, and the
\* pages that refresh #totalPrice show that sum; the total is a function of
\* the set of selections, so the order of the selections that led to it
\* does not matter.
C1_TotalPriceIsSum ==
    /\ TotalPriceOf(page, state) = SumOfPrices(state)
    /\ page \in ShowsTotal => totalPriceEl = TotalPriceText(page, SumOfPrices(state))

\* A web build of two components with a positive total, the second one
\* having replaced an earlier choice.
C1_Witness ==
    /\ page = MAIN
    /\ lastOp.kind = "replace"
    /\ KeyCount(state) = 2
    /\ calculateTotalPrice(MAIN, state) > 0

\* C2: the total watts a page computes is the sum of the watts of the
\* selected components, a component without watts counting as 0; app.js
\* shows that sum in #wattBadge.
C2_TotalWattsIsSum ==
    /\ page \in CatalogPages => SummaryTotals(page, state).totalWatts = SumOfWatts(state)
    /\ page = APP => wattBadgeEl = "~ Wattage: " \o ToString(SumOfWatts(state)) \o "W"
    /\ page = FBUILDER => calculateTotalWatts(FBUILDER, state) = SumOfWatts(state)

\* A build holding a component without watts beside one with watts.
C2_Witness ==
    /\ page = FBUILDER
    /\ lastOp.kind \in {"select", "replace"}
    /\ \E c \in DOMAIN state : "watts" \notin DOMAIN state[c]
    /\ \E c \in DOMAIN state : "watts" \in DOMAIN state[c] /\ state[c].watts > 0

\* The percentages a headroom text is looked up in.
HeadroomRange == (0 - 300)..100

\* text is the headroom of the build st: "-" without a power supply or with
\* total watts 0, else the integer nearest to
\* (psu.watts - totalWatts) / psu.watts * 100, negative ones included.
IsHeadroomOf(st, text) ==
    IF "Power Supply" \notin DOMAIN st \/ SumOfWatts(st) = 0
    THEN text = "-"
    ELSE \E h \in HeadroomRange :
            /\ text = ToString(h) \o "%"
            /\ 2 * Abs(100 * (st["Power Supply"].watts - SumOfWatts(st))
                       - h * st["Power Supply"].watts) <= st["Power Supply"].watts

\* C3: the headroom updateSummary reports is not applicable when no power
\* supply is selected or the total watts are 0, and in every other build it
\* is ((psu.watts - totalWatts) / psu.watts) * 100 rounded to the nearest
\* integer, a negative value being reported as it is.
C3_Headroom ==
    /\ page \in CatalogPages => IsHeadroomOf(state, updateSummary(page, state).psuHeadroom)
    /\ page = APP => IsHeadroomOf(state, psuHeadroomEl)

\* A power supply and one more component: the headroom shown is negative.
C3_Witness ==
    /\ page = APP
    /\ lastOp.kind = "select"
    /\ KeyCount(state) = 2
    /\ "Power Supply" \in DOMAIN state
    /\ psuHeadroomEl \notin {"-", "0%"}
    /\ SumOfWatts(state) > state["Power Supply"].watts


\* The build of the example scenario: a CPU (369, 120 W, score 95), a GPU
\* (549, 200 W, score 86), a power supply (650 W, 109) and nothing else.
IsExampleBuild(st) ==
    /\ DOMAIN st = {"CPU", "GPU", "Power Supply"}
    /\ st["CPU"].price = 369 /\ st["CPU"].watts = 120 /\ st["CPU"].score = 95
    /\ st["GPU"].price = 549 /\ st["GPU"].watts = 200 /\ st["GPU"].score = 86
    /\ st["Power Supply"].price = 109 /\ st["Power Supply"].watts = 650

C5_PerformanceScore ==
    page \in CatalogPages =>
        /\ SummaryTotals(page, state).cpuGpuScore = SumOfScores(state)
        /\ SumOfScores(state) <= 200
        /\ (page = APP /\ SumOfScores(state) > 0) =>
                perfScoreEl = ToString(SumOfScores(state)) \o "/200"

\* A CPU and a GPU are selected, the GPU last.
C5_Witness ==
    /\ page = APP
    /\ lastOp.kind \in {"select", "replace"}
    /\ lastOp.cat = "GPU"
    /\ DOMAIN state = {"CPU", "GPU"}
    /\ SumOfScores(state) > state["CPU"].score

Others(st, c) == [d \in DOMAIN st \ {c} |-> st[d]]

\* C7: the build maps each category to at most one component: a select
\* puts the chosen component in its category, in place of the one that was
\* there; every other category keeps its selection, and the totals are those
\* of the other selections plus the new component, the replaced one
\* contributing nothing.
C7_SelectReplaces ==
    [][lastOp'.kind \in {"select", "replace"} =>
          /\ DOMAIN state' = DOMAIN state \cup {lastOp'.cat}
          /\ DOMAIN state' \subseteq Categories(page)
          /\ state'[lastOp'.cat] = lastOp'.arg
          /\ \A d \in DOMAIN state \ {lastOp'.cat} : state'[d] = state[d]
          /\ TotalPriceOf(page, state')
                = Add(SumOfPrices(Others(state, lastOp'.cat)), lastOp'.arg.price)
          /\ TotalWattsOf(page, state')
                = SumOfWatts(Others(state, lastOp'.cat)) + FieldOr0(lastOp'.arg, "watts")
          /\ page \in ShowsTotal =>
                totalPriceEl' = TotalPriceText(page,
                    Add(SumOfPrices(Others(state, lastOp'.cat)), lastOp'.arg.price))
    ]_vars

\* A select on an occupied category, beside another selection: the category
\* holds the new component.
C7_Witness ==
    /\ lastOp.kind = "replace"
    /\ KeyCount(state) = 2
    /\ state[lastOp.cat] = lastOp.arg

\* C8: a remove on a category without a selection changes nothing: the
\* build, the totals, the count and every text shown stay as they were, and
\* the handler raises no error.
C8_RemoveAbsent ==
    [][lastOp'.kind = "remove-absent" =>
          /\ state' = state
          /\ TotalPriceOf(page, state') = TotalPriceOf(page, state)
          /\ TotalWattsOf(page, state') = TotalWattsOf(page, state)
          /\ KeyCount(state') = KeyCount(state)
          /\ totalPriceEl' = totalPriceEl
          /\ totalPriceClass' = totalPriceClass
          /\ wattBadgeEl' = wattBadgeEl
          /\ perfScoreEl' = perfScoreEl
          /\ psuHeadroomEl' = psuHeadroomEl
          /\ priceCell' = priceCell
          /\ componentCountEl' = componentCountEl
          /\ compatibilityBtn' = compatibilityBtn
          /\ ~lastOp'.threw
    ]_vars

\* A remove on a free category of a build that holds something else.
C8_Witness ==
    /\ lastOp.kind = "remove-absent"
    /\ KeyCount(state) >= 1

\* The totals, the count and their texts are those from before the select
\* lastOp.before was taken at.
RoundTripRestored ==
    /\ TotalPriceOf(page, state) = TotalPriceOf(page, lastOp.before.state)
    /\ TotalWattsOf(page, state) = TotalWattsOf(page, lastOp.before.state)
    /\ KeyCount(state) = KeyCount(lastOp.before.state)
    /\ totalPriceEl = lastOp.before.totalPriceEl
    /\ wattBadgeEl = lastOp.before.wattBadgeEl
    /\ componentCountEl = lastOp.before.componentCountEl

\* C9 as stated: a select on any category followed by a remove on the same
\* category restores the total price, the total watts and the component
\* count from before the select.
C9_RoundTripAnyCategory ==
    lastOp.kind \in {"undo-select", "undo-replace"} => RoundTripRestored

\* C9: a select on a category that had no selection, followed by a remove on
\* the same category, restores the total price, the total watts and the
\* component count from before the select.
C9_RoundTripFreeCategory ==
    lastOp.kind = "undo-select" => RoundTripRestored

\* A select on a free category and its remove, on a build that holds
\* another component.
C9_Witness ==
    /\ lastOp.kind = "undo-select"
    /\ KeyCount(state) >= 1
    /\ lastOp.before.state = state

\* C10: after resetBuild no component is selected, and the aggregates
\* computed on the build are a total price of 0, total watts of 0, no
\* performance score and no headroom; app.js shows them.
C10_Reset ==
    lastOp.kind \in {"reset", "reset-empty"} =>
        /\ DOMAIN state = {}
        /\ KeyCount(state) = 0
        /\ SummaryTotals(page, state).total = 0
        /\ SummaryTotals(page, state).totalWatts = 0
        /\ updateSummary(page, state).perfScore = "-"
        /\ updateSummary(page, state).psuHeadroom = "-"
        /\ page = APP =>
              /\ totalPriceEl = "$0"
              /\ wattBadgeEl = "~ Wattage: 0W"
              /\ perfScoreEl = "-"
              /\ psuHeadroomEl = "-"

\* A reset of a build that held components.
C10_Witness ==
    /\ lastOp.kind = "reset"
    /\ state = <<>>


\* The status of the report on display ("undefined" for a report without one).
DeliveredStatus == 
    IF "build_status" \in DOMAIN compatView.report
    THEN compatView.report.build_status ELSE "undefined"

\* A report is on display.
Delivered == compatView.view = "results"

\* C11: a compatibility check requested on a build without selections shows
\* a report with status no_components, 0 components analysed, no issue and
\* no power analysis, and sends no request to the compatibility service.
C11_NoComponents ==
    [][(checksStarted' = checksStarted + 1 /\ KeyCount(state) = 0) =>
          /\ compatView'.view = "results"
          /\ compatView'.report.build_status = "no_components"
          /\ compatView'.report.components_analyzed = 0
          /\ compatView'.report.compatibility_issues = <<>>
          /\ compatView'.report.power_analysis = Null
          /\ compatView'.analyzed = "0"
          /\ compatView'.issues = <<>>
          /\ compatView'.power = Null
          /\ requests' = requests
    ]_vars

\* A check on the empty build, started while an earlier check is still
\* waiting for its response.
C11_Witness ==
    /\ lastOp.kind = "check-empty"
    /\ state = <<>>
    /\ requests # {}
    /\ Delivered
    /\ DeliveredStatus = "no_components"

C13_FailureShowsError ==
    (Delivered /\ compatView.outcome = "failed") =>
        /\ DeliveredStatus = "error"
        /\ compatView.summary = ErrorReport.summary

\* C14: the components_analyzed of every report on display is the number of
\* categories selected in the build the check was started on.
C14_ComponentsAnalyzed ==
    Delivered => compatView.analyzed = ToString(KeyCount(compatView.startedOn))

\* C15: a report on display is that of the check started last: the report
\* of a check that was superseded while waiting for its response is never
\* shown.
C15_OnlyLatestCheck ==
    Delivered => compatView.check = checksStarted


\* The build after category cat was set to arg.
StateWith(st, cat, arg) ==
    [c \in DOMAIN st \cup {cat} |-> IF c = cat THEN arg ELSE st[c]]

\* st2 is st without at most one of its categories.
WithoutOne(st, st2) ==
    /\ DOMAIN st2 \subseteq DOMAIN st
    /\ Cardinality(DOMAIN st \ DOMAIN st2) <= 1
    /\ \A c \in DOMAIN st2 : st2[c] = st[c]

\* C16: the build sent to the service is the build at the moment the check
\* began, and the service's report on display is its verdict on that build;
\* a select or a remove while a check waits for its response is accepted
\* without error and changes the build, never the request in flight.
C16_Snapshot ==
    [][/\ \A req \in requests' : req.body.components = req.startedOn
       /\ (compatView'.view = "results" /\ compatView'.outcome = "report") =>
              compatView'.report = Evaluate(compatView'.startedOn)
       /\ (requests # {} /\ lastOp'.kind \in {"select", "replace"}) =>
              /\ ~lastOp'.threw
              /\ state' = StateWith(state, lastOp'.cat, lastOp'.arg)
              /\ requests' = requests
       /\ (requests # {} /\ lastOp'.kind = "remove") =>
              /\ ~lastOp'.threw
              /\ state' # state
              /\ WithoutOne(state, state')
              /\ requests' = requests
    ]_vars

\* The service's report is on display after the build was changed during
\* the check, and its verdict differs from the one the present build gets.
C16_Witness ==
    /\ Delivered
    /\ compatView.outcome = "report"
    /\ compatView.startedOn # state
    /\ compatView.report = Evaluate(compatView.startedOn)
    /\ compatView.report # Evaluate(state)

\* C17: requesting a compatibility check, rendering its report, and
\* computing the aggregates (the price tracker after a select or a remove,
\* the summary of the catalog pages) leave the build as it is: a check and a
\* summary keep it whole, a select changes the selected category only and a
\* remove takes away the removed category only.
C17_ReadOnly ==
    [][/\ lastOp'.kind \in {"check", "check-empty", "check-response", "updateSummary"} =>
              state' = state
       /\ lastOp'.kind \in {"select", "replace"} =>
              state' = StateWith(state, lastOp'.cat, lastOp'.arg)
       /\ lastOp'.kind \in {"remove", "remove-absent"} =>
              WithoutOne(state, state')
    ]_vars

\* A report was rendered for a build of two components, which are still
\* selected.
C17_Witness ==
    /\ lastOp.kind = "check-response"
    /\ Delivered
    /\ KeyCount(state) = 2
    /\ compatView.startedOn = state


\* showWebResults has rendered the outcome of a search.
SearchRendered == modalContent.view \in {"results", "no-results", "search-error"}

\* C18: when the search request fails in transport, returns a non-2xx
\* response or a body that is not JSON, searchParts does not throw: it
\* resolves to a value with query, source and a results object whose results
\* list is empty, and showWebResults offers no candidate.
C18_SearchFailureIsEmptyResult ==
    (SearchRendered /\ SearchThrows(modalContent.response)) =>
        /\ ~modalContent.completion.threw
        /\ DOMAIN modalContent.completion.value = {"query", "source", "results"}
        /\ modalContent.completion.value.query = SearchQuery(modalContent.category)
        /\ DOMAIN modalContent.completion.value.results = {"query", "results", "message"}
        /\ modalContent.completion.value.results.results = <<>>
        /\ modalContent.items = <<>>
        /\ modalContent.found = 0
        /\ modalContent.view # "results"

\* A search answered with a status that is not 2xx has been rendered.
C18_Witness ==
    /\ SearchRendered
    /\ modalContent.response.fetch = "resolved"
    /\ ~modalContent.response.ok
    /\ modalContent.completion.value = SearchUnavailable(SearchQuery(modalContent.category))
    /\ modalContent.items = <<>>


\* The price text of a raw result (the empty text when it has none).
PriceTextOf(w) == IF "price" \in DOMAIN w THEN w.price ELSE <<>>

\* The text holds a digit.
HasDigit(text) == \E i \in 1..Len(text) : text[i] \in Digits

\* The first run of digits and commas of the text with its decimals: what is
\* left when the text before it and the text after it are cut off.
FirstRun(text) ==
    IF FirstMatch(text) = <<0, 0>> THEN <<>>
    ELSE SubSeq(text, FirstMatch(text)[1], FirstMatch(text)[2])

\* The text is digits only, at least one.
IsDigitRun(text) == Len(text) > 0 /\ \A i \in 1..Len(text) : text[i] \in Digits

\* C19: "$1,234.56 (used)" normalises to 1234.56 and "Contact for price" to
\* 0 (prices are held in hundredths); the currency symbols before the first
\* run of digits and the text after it are ignored: the price of a text is
\* the price of its first run alone, and a run of digits alone has the
\* number it denotes as its price.
C19_PriceExamples ==
    priceCall.called =>
        /\ PriceTextOf(priceCall.input) = PriceUsed => priceCall.result = 123456
        /\ PriceTextOf(priceCall.input) = PriceContact => priceCall.result = 0
        /\ HasDigit(PriceTextOf(priceCall.input)) =>
               priceCall.result =
                   extractNumericPrice([price |-> FirstRun(PriceTextOf(priceCall.input))])
        /\ IsDigitRun(FirstRun(PriceTextOf(priceCall.input))) =>
               priceCall.result = 100 * DigitsValue(FirstRun(PriceTextOf(priceCall.input)))

\* "$1,234.56 (used)" has been normalised.
C19_Witness ==
    /\ priceCall.called
    /\ priceCall.input.price = PriceUsed
    /\ priceCall.result = 123456

\* C20: a price text without a digit (the empty and the missing text, and
\* texts of commas and dots) normalises to 0, and the price of every text is
\* a number that is not negative.
C20_NoDigitIsZero ==
    priceCall.called =>
        /\ ~HasDigit(PriceTextOf(priceCall.input)) => priceCall.result = 0
        /\ ~IsNaN(priceCall.result)
        /\ priceCall.result >= 0


\* The components of the build that selectWebComponent made from a raw
\* search result.
Normalized ==
    IF page \in WebPages
    THEN {state[c] : c \in {k \in DOMAIN state : state[k] \notin DirectComponents}}
    ELSE {}

\* C21: every component made from a web search result has estimated watts w
\* with 50 <= w < 250.
C21_WattsRange ==
    \A component \in Normalized :
        /\ "watts" \in DOMAIN component
        /\ 50 <= component.watts
        /\ component.watts < 250

\* A build holding a component at the least and one at the greatest estimate.
C21_Witness ==
    /\ \E component \in Normalized : component.watts = 50
    /\ \E component \in Normalized : component.watts = 249

\* C23: a raw search result without a title is normalised without failure
\* into a component named after its category, which is selected; every
\* component of the build has a name that is not empty.
C23_FallbackName ==
    /\ \A c \in DOMAIN state : "name" \in DOMAIN state[c] /\ state[c].name # ""
    /\ \A c \in DOMAIN state :
          state[c] \in Normalized =>
              \/ state[c].name = c \o " Component"
              \/ \E w \in WebResults : "title" \in DOMAIN w /\ state[c].name = w.title
    /\ (page \in WebPages /\ lastOp.kind \in {"select", "replace"}) =>
          /\ lastOp.cat \in DOMAIN state
          /\ state[lastOp.cat] = lastOp.arg
          /\ page = MAIN => ~lastOp.threw

\* The result without a title was selected for the power supply.
C23_Witness ==
    /\ page = MAIN
    /\ lastOp.kind = "select"
    /\ lastOp.cat = "Power Supply"
    /\ ~lastOp.threw
    /\ state["Power Supply"].name = "Power Supply Component"
    /\ state["Power Supply"] \in Normalized


\* C22: the components of a build that were made from search results have
\* ids that differ from one another, also when they were made within one
\* reading of the clock and for different categories.
C22_UniqueIds ==
    \A c1 \in DOMAIN state, c2 \in DOMAIN state :
        (c1 # c2 /\ state[c1] \in Normalized /\ state[c2] \in Normalized) =>
            state[c1].id # state[c2].id

\* The component of category c was made from a result of a search for c.
FromSearchFor(c) == state[c].url = ResultUrl(SearchQuery(c))

\* The component of category c is an item of the page's CATALOG[c].
FromCatalog(c) ==
    /\ c \in DOMAIN CATALOG(page)
    /\ \E i \in 1..Len(CATALOG(page)[c]) : state[c] = CATALOG(page)[c][i]

\* C24: the component stored under a category comes from that category: on
\* the catalog pages it is an item of CATALOG[c], on the web builders it was
\* made from a result of a search for c, also when the searches for two
\* categories were in flight together.
C24_Origin ==
    \A c \in DOMAIN state :
        IF page \in CatalogPages THEN FromCatalog(c) ELSE FromSearchFor(c)

\* A CPU was selected from the results of the CPU search, which were
\* rendered after the modal had been opened for the power supply.
C24_Witness ==
    /\ page \in WebPages
    /\ lastOp.kind = "select"
    /\ lastOp.cat = "CPU"
    /\ modal.title = "Select Power Supply"
    /\ modalContent.search = 1
    /\ searchesStarted = 2
    /\ FromSearchFor("CPU")


\* C25: at most one compatibility request is in flight, and while one is in
\* flight the compatibility button is disabled, whatever is selected or
\* removed meanwhile.
C25_OneCheckInFlight ==
    /\ Cardinality(requests) <= 1
    /\ requests # {} => compatibilityBtn.disabled

\* C26: while no compatibility check is in flight the compatibility button
\* is enabled exactly when at least 2 components are selected.
C26_ButtonIffTwoComponents ==
    requests = {} => (~compatibilityBtn.disabled <=> KeyCount(state) >= 2)


\* The request of check k is in flight.
InFlight(k) == \E req \in requests : req.check = k

\* The handler of check k has just rendered its report and reset the button.
Finished(k) ==
    /\ lastOp.kind = "check-response"
    /\ ~InFlight(k)
    /\ Delivered
    /\ compatView.check = k
    /\ ~compatibilityBtn.disabled
    /\ compatibilityBtnHtml = "Check Compatibility"

\* C27: every compatibility check that sent its request (it was started on
\* at least one component) finishes once the request resolves or rejects:
\* its report, the service's or the error report, takes the place of the
\* loading view and the button is enabled with its normal label; a report is
\* rendered only by the step that takes the request out of flight.
C27_CheckFinishes ==
    /\ \A k \in 1..MaxChecks : InFlight(k) ~> Finished(k)
    /\ [][lastOp'.kind = "check-response" =>
            \E req \in requests :
                /\ requests' = requests \ {req}
                /\ compatView'.view = "results"
                /\ compatView'.check = req.check
                /\ KeyCount(req.startedOn) >= 1
         ]_vars

\* The first check has finished with the error report.
C27_Witness ==
    /\ Finished(1)
    /\ compatView.outcome = "failed"
    /\ DeliveredStatus = "error"
    /\ KeyCount(compatView.startedOn) >= 1


\* C28: a search that fails in transport or returns a status that is not 2xx
\* ends in the service-error view ("Search Temporarily Unavailable"), and
\* the no-results view ("No Results Found") is shown only for a search that
\* succeeded with an empty list of results.
C28_ErrorViewOnFailure ==
    SearchRendered =>
        /\ SearchThrows(modalContent.response) => modalContent.view = "search-error"
        /\ modalContent.view = "no-results" => ~SearchThrows(modalContent.response)

\* C29: once every search has been answered, the open modal shows the
\* outcome of a search for the category its title names, the one opened last.
C29_LatestSearchShown ==
    (searches = {} /\ SearchRendered /\ modal.display = "flex") =>
        modal.title = "Select " \o modalContent.category


\* C30: a select that cannot be honoured (an item id the category's catalog
\* list does not hold in builder.js, a missing component in the web
\* builders) returns without failure and leaves the build, and with it every
\* total and every text shown, as it was.
C30_RejectedSelect ==
    [][lastOp'.kind = "reject" =>
          /\ state' = state
          /\ ~lastOp'.threw
          /\ TotalPriceOf(page, state') = TotalPriceOf(page, state)
          /\ TotalWattsOf(page, state') = TotalWattsOf(page, state)
          /\ KeyCount(state') = KeyCount(state)
          /\ totalPriceEl' = totalPriceEl
          /\ wattBadgeEl' = wattBadgeEl
          /\ componentCountEl' = componentCountEl
          /\ priceCell' = priceCell
    ]_vars

\* An unknown item id was selected in builder.js on a build holding a
\* component.
C30_Witness ==
    /\ page = BUILDER
    /\ lastOp.kind = "reject"
    /\ KeyCount(state) >= 1

=============================================================================
